---- MODULE Spec2Model ----
(***************************************************************************)
(* Model of populate_swatches.py: the swatch extraction driver (main) and  *)
(* its helpers norm, detect_series, is_square_swatch, nearest_color_label. *)
(*                                                                         *)
(* A Python str is a sequence of one-character strings, so that norm,      *)
(* strip, substring search and path formatting are computed, not assumed.  *)
(* None is a one-element sequence holding a four-character string, which   *)
(* no str equals.                                                          *)
(***************************************************************************)
EXTENDS Integers, Sequences, FiniteSets, TLC

None == <<"None">>

\* Python truthiness of an Optional[str]: None and "" are falsy.
Truthy(s) == s # None /\ s # <<>>

\* ---------------------------------------------------------------- bounds
\* Pages of the document.
MaxPages == 2
\* Objects of the xref table (xref 1..MaxXref; xref_length is MaxXref + 1).
MaxXref == 2
\* Words on a page, for the checks of nearest_color_label alone.
MaxWords == 3
\* Names and filler words a page text is built from, for detect_series alone.
MaxTokens == 2
\* Largest pixel width and height, for the checks of is_square_swatch alone.
MaxDim == 400

\* ------------------------------------------------------------- taxonomy
\* SERIES_COLORS, a dict literal: its items in insertion order.
SERIES_COLORS_ITEMS ==
  <<
     [series |-> (* Timberline HDZ *) <<"T","i","m","b","e","r","l","i","n","e"," ","H","D","Z">>,
      colors |-> <<
         (* Barkwood *) <<"B","a","r","k","w","o","o","d">>,
         (* Charcoal *) <<"C","h","a","r","c","o","a","l">>,
         (* Hickory *) <<"H","i","c","k","o","r","y">>,
         (* Hunter Green *) <<"H","u","n","t","e","r"," ","G","r","e","e","n">>,
         (* Mission Brown *) <<"M","i","s","s","i","o","n"," ","B","r","o","w","n">>,
         (* Pewter Gray *) <<"P","e","w","t","e","r"," ","G","r","a","y">>,
         (* Shakewood *) <<"S","h","a","k","e","w","o","o","d">>,
         (* Slate *) <<"S","l","a","t","e">>,
         (* Weathered Wood *) <<"W","e","a","t","h","e","r","e","d"," ","W","o","o","d">>,
         (* Appalachian Sky *) <<"A","p","p","a","l","a","c","h","i","a","n"," ","S","k","y">>,
         (* Nantucket Morning *) <<"N","a","n","t","u","c","k","e","t"," ","M","o","r","n","i","n","g">>,
         (* Golden Harvest *) <<"G","o","l","d","e","n"," ","H","a","r","v","e","s","t">>,
         (* Cedar Falls *) <<"C","e","d","a","r"," ","F","a","l","l","s">>,
         (* Biscayne Blue *) <<"B","i","s","c","a","y","n","e"," ","B","l","u","e">>,
         (* Birchwood *) <<"B","i","r","c","h","w","o","o","d">>,
         (* Copper Canyon *) <<"C","o","p","p","e","r"," ","C","a","n","y","o","n">>,
         (* Driftwood *) <<"D","r","i","f","t","w","o","o","d">>,
         (* Fox Hollow Gray *) <<"F","o","x"," ","H","o","l","l","o","w"," ","G","r","a","y">>,
         (* Golden Amber *) <<"G","o","l","d","e","n"," ","A","m","b","e","r">>,
         (* Oyster Gray *) <<"O","y","s","t","e","r"," ","G","r","a","y">>,
         (* Patriot Red *) <<"P","a","t","r","i","o","t"," ","R","e","d">>,
         (* Sunset Brick *) <<"S","u","n","s","e","t"," ","B","r","i","c","k">>,
         (* Williamsburg Slate *) <<"W","i","l","l","i","a","m","s","b","u","r","g"," ","S","l","a","t","e">> >>],
     [series |-> (* Timberline UHDZ *) <<"T","i","m","b","e","r","l","i","n","e"," ","U","H","D","Z">>,
      colors |-> <<
         (* Barkwood *) <<"B","a","r","k","w","o","o","d">>,
         (* Charcoal *) <<"C","h","a","r","c","o","a","l">>,
         (* Pewter Gray *) <<"P","e","w","t","e","r"," ","G","r","a","y">>,
         (* Shakewood *) <<"S","h","a","k","e","w","o","o","d">>,
         (* Slate *) <<"S","l","a","t","e">>,
         (* Weathered Wood *) <<"W","e","a","t","h","e","r","e","d"," ","W","o","o","d">> >>],
     [series |-> (* Timberline NS *) <<"T","i","m","b","e","r","l","i","n","e"," ","N","S">>,
      colors |-> <<
         (* Weathered Wood *) <<"W","e","a","t","h","e","r","e","d"," ","W","o","o","d">>,
         (* Barkwood *) <<"B","a","r","k","w","o","o","d">>,
         (* Charcoal *) <<"C","h","a","r","c","o","a","l">>,
         (* Pewter Gray *) <<"P","e","w","t","e","r"," ","G","r","a","y">>,
         (* Shakewood *) <<"S","h","a","k","e","w","o","o","d">>,
         (* Slate *) <<"S","l","a","t","e">>,
         (* Hickory *) <<"H","i","c","k","o","r","y">> >>],
     [series |-> (* Grand Sequoia *) <<"G","r","a","n","d"," ","S","e","q","u","o","i","a">>,
      colors |-> <<
         (* Charcoal *) <<"C","h","a","r","c","o","a","l">>,
         (* Autumn Brown *) <<"A","u","t","u","m","n"," ","B","r","o","w","n">>,
         (* Weathered Wood *) <<"W","e","a","t","h","e","r","e","d"," ","W","o","o","d">>,
         (* Cedar Mesa Brown *) <<"C","e","d","a","r"," ","M","e","s","a"," ","B","r","o","w","n">> >>],
     [series |-> (* Camelot II *) <<"C","a","m","e","l","o","t"," ","I","I">>,
      colors |-> <<
         (* Weathered Timber *) <<"W","e","a","t","h","e","r","e","d"," ","T","i","m","b","e","r">>,
         (* Antique Slate *) <<"A","n","t","i","q","u","e"," ","S","l","a","t","e">>,
         (* Charcoal *) <<"C","h","a","r","c","o","a","l">>,
         (* Barkwood *) <<"B","a","r","k","w","o","o","d">>,
         (* Royal Slate *) <<"R","o","y","a","l"," ","S","l","a","t","e">> >>],
     [series |-> (* Woodland *) <<"W","o","o","d","l","a","n","d">>,
      colors |-> <<
         (* Cedarwood Abbey *) <<"C","e","d","a","r","w","o","o","d"," ","A","b","b","e","y">>,
         (* Castlewood Gray *) <<"C","a","s","t","l","e","w","o","o","d"," ","G","r","a","y">> >>],
     [series |-> (* Slateline *) <<"S","l","a","t","e","l","i","n","e">>,
      colors |-> <<
         (* Royal Slate *) <<"R","o","y","a","l"," ","S","l","a","t","e">>,
         (* Antique Slate *) <<"A","n","t","i","q","u","e"," ","S","l","a","t","e">>,
         (* English Gray *) <<"E","n","g","l","i","s","h"," ","G","r","a","y">>,
         (* Weathered Slate *) <<"W","e","a","t","h","e","r","e","d"," ","S","l","a","t","e">> >>],
     [series |-> (* Timberline AS II *) <<"T","i","m","b","e","r","l","i","n","e"," ","A","S"," ","I","I">>,
      colors |-> <<
         (* Charcoal *) <<"C","h","a","r","c","o","a","l">>,
         (* Dusky Gray *) <<"D","u","s","k","y"," ","G","r","a","y">>,
         (* Weathered Wood *) <<"W","e","a","t","h","e","r","e","d"," ","W","o","o","d">>,
         (* Hickory *) <<"H","i","c","k","o","r","y">>,
         (* Adobe Sunset *) <<"A","d","o","b","e"," ","S","u","n","s","e","t">>,
         (* Pewter Gray *) <<"P","e","w","t","e","r"," ","G","r","a","y">>,
         (* Barkwood *) <<"B","a","r","k","w","o","o","d">>,
         (* Shakewood *) <<"S","h","a","k","e","w","o","o","d">>,
         (* Slate *) <<"S","l","a","t","e">> >>],
     [series |-> (* Grand Sequoia AS *) <<"G","r","a","n","d"," ","S","e","q","u","o","i","a"," ","A","S">>,
      colors |-> <<
         (* Charcoal *) <<"C","h","a","r","c","o","a","l">>,
         (* Dusky Gray *) <<"D","u","s","k","y"," ","G","r","a","y">>,
         (* Weathered Wood *) <<"W","e","a","t","h","e","r","e","d"," ","W","o","o","d">> >>],
     [series |-> (* Timberline HDZ RS *) <<"T","i","m","b","e","r","l","i","n","e"," ","H","D","Z"," ","R","S">>,
      colors |-> <<
         (* Sagewood *) <<"S","a","g","e","w","o","o","d">>,
         (* Stone Gray *) <<"S","t","o","n","e"," ","G","r","a","y">>,
         (* Hickory *) <<"H","i","c","k","o","r","y">>,
         (* Aged Chestnut *) <<"A","g","e","d"," ","C","h","e","s","t","n","u","t">>,
         (* Coastal Slate *) <<"C","o","a","s","t","a","l"," ","S","l","a","t","e">>,
         (* Sandalwood *) <<"S","a","n","d","a","l","w","o","o","d">>,
         (* Charcoal *) <<"C","h","a","r","c","o","a","l">> >>],
     [series |-> (* Grand Sequoia RS *) <<"G","r","a","n","d"," ","S","e","q","u","o","i","a"," ","R","S">>,
      colors |-> <<
         (* Sandalwood *) <<"S","a","n","d","a","l","w","o","o","d">>,
         (* Ocean Gray *) <<"O","c","e","a","n"," ","G","r","a","y">>,
         (* Charcoal *) <<"C","h","a","r","c","o","a","l">>,
         (* Forest Brown *) <<"F","o","r","e","s","t"," ","B","r","o","w","n">>,
         (* Sagewood *) <<"S","a","g","e","w","o","o","d">> >>],
     [series |-> (* Royal Sovereign *) <<"R","o","y","a","l"," ","S","o","v","e","r","e","i","g","n">>,
      colors |-> <<
         (* Charcoal *) <<"C","h","a","r","c","o","a","l">>,
         (* Weathered Gray *) <<"W","e","a","t","h","e","r","e","d"," ","G","r","a","y">> >>]
  >>


SERIES_NAMES == [i \in DOMAIN SERIES_COLORS_ITEMS |-> SERIES_COLORS_ITEMS[i].series]

\* SERIES_COLORS.get(series): the color list, or None for a missing key.
SERIES_COLORS_get(series) ==
  IF \E i \in DOMAIN SERIES_COLORS_ITEMS : SERIES_COLORS_ITEMS[i].series = series
  THEN SERIES_COLORS_ITEMS[CHOOSE i \in DOMAIN SERIES_COLORS_ITEMS :
                             SERIES_COLORS_ITEMS[i].series = series].colors
  ELSE None

\* ---------------------------------------------------------------- strings
Whitespace == {" ", "\n", "\t"}
UpperCase == <<"A","B","C","D","E","F","G","H","I","J","K","L","M",
               "N","O","P","Q","R","S","T","U","V","W","X","Y","Z">>
LowerCase == <<"a","b","c","d","e","f","g","h","i","j","k","l","m",
               "n","o","p","q","r","s","t","u","v","w","x","y","z">>
DigitChar == <<"0","1","2","3","4","5","6","7","8","9">>

Range(f) == {f[i] : i \in DOMAIN f}

\* The element of a one-element set. {F(v) : v \in {e}} evaluates e once and
\* hands F its value.
Value(S) == CHOOSE v \in S : TRUE

\* str.lower()
lower_char(c) ==
  IF \E i \in DOMAIN UpperCase : UpperCase[i] = c
  THEN LowerCase[CHOOSE i \in DOMAIN UpperCase : UpperCase[i] = c]
  ELSE c
lower(s) == [i \in DOMAIN s |-> lower_char(s[i])]

\* str.strip(): from the first to the last character that is no whitespace.
strip(str) ==
  Value({ LET inked == {i \in DOMAIN s : s[i] \notin Whitespace}
          IN  IF inked = {} THEN <<>>
              ELSE SubSeq(s, CHOOSE i \in inked : \A j \in inked : i <= j,
                             CHOOSE i \in inked : \A j \in inked : j <= i)
        : s \in {str} })

\* re.sub(r"\s+", " ", s) from position i on: every maximal run of whitespace
\* becomes one space, put where the run starts.
RECURSIVE collapse_from(_, _)
collapse_from(s, i) ==
  IF i > Len(s) THEN <<>>
  ELSE IF s[i] \notin Whitespace THEN <<s[i]>> \o collapse_from(s, i + 1)
  ELSE IF i > 1 /\ s[i - 1] \in Whitespace THEN collapse_from(s, i + 1)
  ELSE <<" ">> \o collapse_from(s, i + 1)

collapse_ws(str) == Value({collapse_from(s, 1) : s \in {str}})

\* a in t, for two str
Contains(text, sub) ==
  \E t \in {text}, a \in {sub} :
    \E i \in 0..(Len(t) - Len(a)) : SubSeq(t, i + 1, i + Len(a)) = a

StartsWith(t, a) == Len(a) <= Len(t) /\ SubSeq(t, 1, Len(a)) = a

ALL_COLOR_LOWER ==
  UNION {{lower(c) : c \in Range(SERIES_COLORS_ITEMS[i].colors)} :
           i \in DOMAIN SERIES_COLORS_ITEMS}

norm(s) ==
  Value({lower(t) : t \in {strip(collapse_ws(IF Truthy(s) THEN s ELSE <<>>))}})

\* --------------------------------------------------------- detect_series
\* sorted(names, key=len, reverse=True): stable, so names of equal length keep
\* their order in names. Insertion of each name behind the names at least as long.
RECURSIVE sorted_len_reverse(_)
sorted_len_reverse(names) ==
  IF names = <<>> THEN <<>>
  ELSE LET init == sorted_len_reverse(SubSeq(names, 1, Len(names) - 1))
           x    == names[Len(names)]
           k    == Cardinality({i \in DOMAIN init : Len(init[i]) >= Len(x)})
       IN  SubSeq(init, 1, k) \o <<x>> \o SubSeq(init, k + 1, Len(init))

\* The taxonomy's own order: what the loop would walk without the sort.
series_order_unsorted == SERIES_NAMES

\* The order detect_series tries the series names in.
series_order == sorted_len_reverse(SERIES_NAMES)

\* norm(series) of each, tabulated.
series_order_norm == [i \in DOMAIN series_order |-> norm(series_order[i])]

\* The for loop from position i on: the first series whose name is in t.
RECURSIVE detect_loop(_, _)
detect_loop(t, i) ==
  IF i > Len(series_order) THEN None
  ELSE IF Contains(t, series_order_norm[i]) THEN series_order[i]
  ELSE detect_loop(t, i + 1)

detect_series(text) == Value({detect_loop(t, 1) : t \in {norm(text)}})

\* ------------------------------------------------------ is_square_swatch
MIN_SIDE == 180
\* The ratio bounds 0.85 and 1.18, in hundredths.
AR_LOW == 85
AR_HIGH == 118

\* The filter with both bounds of the band and the minimum side exclusive.
is_square_swatch_strict(pix) ==
  LET w == pix.width
      h == pix.height
  IN  IF w <= MIN_SIDE \/ h <= MIN_SIDE THEN FALSE
      ELSE AR_LOW * h < 100 * w /\ 100 * w < AR_HIGH * h

\* ar = w / float(h) is the correctly rounded quotient and 0.85, 1.18 are the
\* correctly rounded literals; rounding is monotone and, for pixel dimensions,
\* w/h differs from 17/20 and 59/50 by far more than an ulp unless equal, so the
\* comparisons of doubles agree with those of the exact rationals.
is_square_swatch(pix) ==
  LET w == pix.width
      h == pix.height
  IN  IF w < MIN_SIDE \/ h < MIN_SIDE THEN FALSE
      ELSE AR_LOW * h <= 100 * w /\ 100 * w <= AR_HIGH * h

\* --------------------------------------------------- nearest_color_label
PROXIMITY == 260

Abs(x) == IF x < 0 THEN -x ELSE x

\* Coordinates are integers in page units; a center is kept doubled (cx2 is
\* 2 * cx) so that halves stay exact, and a squared distance four-fold (d4).
rect_width(rect) == rect.x1 - rect.x0
rect_height(rect) == rect.y1 - rect.y0
rect_cx2(rect) == 2 * rect.x0 + rect_width(rect)
rect_cy2(rect) == 2 * rect.y0 + rect_height(rect)
word_wx2(w) == w.x0 + w.x1
word_wy2(w) == w.y0 + w.y1

\* abs(wy - cy) < 260 and abs(wx - cx) < 260
within_proximity(w, rect) ==
  /\ Abs(word_wy2(w) - rect_cy2(rect)) < 2 * PROXIMITY
  /\ Abs(word_wx2(w) - rect_cx2(rect)) < 2 * PROXIMITY

\* d = (wx - cx)**2 + (wy - cy)**2, four-fold
dist4(w, rect) ==
  (word_wx2(w) - rect_cx2(rect)) * (word_wx2(w) - rect_cx2(rect))
    + (word_wy2(w) - rect_cy2(rect)) * (word_wy2(w) - rect_cy2(rect))

\* best_d starts at 1e12, above every distance of the model's 32-bit integers:
\* -1, which no squared distance is, stands for it, and d < 1e12 holds for every d.
BEST_D_INIT == -1
\* The comparison with <= : on a tie the later word would win.
closer_or_equal(d4, best_d4) == best_d4 = BEST_D_INIT \/ d4 <= best_d4

closer(d4, best_d4) == best_d4 = BEST_D_INIT \/ d4 < best_d4

\* set(map(norm, colors)) of each list of the taxonomy, tabulated.
series_allowed ==
  [i \in DOMAIN SERIES_COLORS_ITEMS |->
     {norm(c) : c \in Range(SERIES_COLORS_ITEMS[i].colors)}]

\* allowed = set(map(norm, allowed_colors)) if allowed_colors else ALL_COLOR_LOWER
allowed_set(allowed_colors) ==
  IF allowed_colors # None /\ allowed_colors # <<>>
  THEN IF \E i \in DOMAIN SERIES_COLORS_ITEMS :
            SERIES_COLORS_ITEMS[i].colors = allowed_colors
       THEN series_allowed[CHOOSE i \in DOMAIN SERIES_COLORS_ITEMS :
                             SERIES_COLORS_ITEMS[i].colors = allowed_colors]
       ELSE {norm(c) : c \in Range(allowed_colors)}
  ELSE ALL_COLOR_LOWER

\* One pass of the loop body on word w: the running best (best_d, best_text) after it.
nearest_step(w, rect, allowed, best) ==
  Value({ IF norm(raw) \in allowed /\ within_proximity(w, rect)
             /\ closer(dist4(w, rect), best[1])
          THEN <<dist4(w, rect), raw>>
          ELSE best
        : raw \in {strip(w.txt)} })

\* The for loop over words from index i on, with the running best.
RECURSIVE nearest_loop(_, _, _, _, _)
nearest_loop(words, i, rect, allowed, best) ==
  IF i > Len(words) THEN best[2]
  ELSE Value({nearest_loop(words, i + 1, rect, allowed, b) :
                b \in {nearest_step(words[i], rect, allowed, best)}})

nearest_color_label(words, rect, allowed_colors) ==
  IF words = <<>> THEN None
  ELSE Value({nearest_loop(words, 1, rect, allowed, <<BEST_D_INIT, None>>) :
                allowed \in {allowed_set(allowed_colors)}})

\* ------------------------------------------------------------------ paths
\* str(n) for n >= 0
RECURSIVE decimal(_)
decimal(n) == IF n < 10 THEN <<DigitChar[n + 1]>>
              ELSE decimal(n \div 10) \o <<DigitChar[(n % 10) + 1]>>

\* f"{n:02d}"
decimal02(n) == IF n < 10 THEN <<"0">> \o decimal(n) ELSE decimal(n)

\* os.path.join(a, b) on POSIX: an absolute b replaces a.
path_join(a, b) ==
  IF b # <<>> /\ Head(b) = "/" THEN b
  ELSE IF a = <<>> \/ a[Len(a)] = "/" THEN a \o b
  ELSE a \o <<"/">> \o b

OUT_ROOT == <<"s","w","a","t","c","h","e","s">>
RAW_ROOT == <<"s","w","a","t","c","h","e","s","_","r","a","w">>
DOT_PNG == <<".","p","n","g">>

\* f"page{pidx:02d}_xref{xref}_w{pix.width}_h{pix.height}.png"
raw_name(pidx, xref, pix) ==
  <<"p","a","g","e">> \o decimal02(pidx) \o <<"_","x","r","e","f">> \o decimal(xref)
    \o <<"_","w">> \o decimal(pix.width) \o <<"_","h">> \o decimal(pix.height) \o DOT_PNG

\* --------------------------------------------------------------- document
\* What PyMuPDF supplies. A page has its text and its words. An entry of the
\* xref table has a Subtype (or xref_get_key raises); an image has pixel data
\* (NoPix: fitz.Pixmap raises on it, every time) and, per page, the rectangles
\* it is placed at.
NoPix == [width |-> 0, height |-> 0, n |-> 0, to_rgb |-> FALSE]
NoObj == [pixmap |-> NoPix, rects |-> <<>>]

\* Placement rectangles: R1 is centered at (100,100), R2 at (700,700).
R1 == [x0 |-> 0, y0 |-> 0, x1 |-> 200, y1 |-> 200]
R2 == [x0 |-> 600, y0 |-> 600, x1 |-> 800, y1 |-> 800]

Word(x0, y0, x1, y1, txt) == [x0 |-> x0, y0 |-> y0, x1 |-> x1, y1 |-> y1, txt |-> txt]

\* The words of a page: "Barkwood" centered at (120,110), "CHARCOAL" at (150,140),
\* and "Slate" at (700,960), which is exactly 260 below the center of R2.
PageWords ==
  << Word(100, 105, 140, 115, <<"B","a","r","k","w","o","o","d">>),
     Word(130, 135, 170, 145, <<"C","H","A","R","C","O","A","L">>),
     Word(690, 955, 710, 965, <<"S","l","a","t","e">>) >>

PageTexts ==
  { (* GAF Roofing\nLifetime Shingles *) <<"G","A","F"," ","R","o","o","f","i","n","g","\n","L","i","f","e","t","i","m","e"," ","S","h","i","n","g","l","e","s">>,
    (* GAF TIMBERLINE\tHDZ RS *) <<"G","A","F"," ","T","I","M","B","E","R","L","I","N","E","\t","H","D","Z"," ","R","S">> }

PageSet == {[text |-> t, words |-> PageWords] : t \in PageTexts}

\* Pixel data: width, height, channels n, and whether fitz.Pixmap(fitz.csRGB, pix)
\* converts it (to_rgb) or raises.
PixSet == { [width |-> 300, height |-> 300, n |-> 4, to_rgb |-> FALSE],
            [width |-> 400, height |-> 200, n |-> 3, to_rgb |-> TRUE],
            NoPix }

RectLists == { <<>>, <<R1, R2>> }

\* The image objects a document of npages pages may hold.
ImageSet(npages) ==
  {[pixmap |-> px, rects |-> rs] : px \in PixSet, rs \in [1..npages -> RectLists]}

\* Subtype values of objects that are no image: "/Form", and "null" for none.
IMAGE == <<"/","I","m","a","g","e">>
OtherSubtypes == { <<"/","F","o","r","m">>, <<"n","u","l","l">> }

\* ------------------------------------------------------------------ state
VARIABLES
  pdf_exists,        \* os.path.exists(PDF_PATH)
  doc,               \* the pages of the opened document (an input, never written)
  obj,               \* the image object of the xref entry main is at (an input)
  pc,                \* where main is: start, xref_loop, page_loop, rect_loop, done, exit
  xref, pidx, ridx,  \* the three loop variables (ridx: index into rects, from 1)
  appeared, rects, series_hint, words, pix,   \* locals of main
  page_words_cache, page_text_cache,
  saved_swatches, saved_raw,
  dirs,              \* directories that exist
  fs,                \* files written: path -> what was saved
  log,               \* history: every pix.save call, in order
  decodes,           \* history: fitz.Pixmap(doc, xref) calls per xref
  failed,            \* history: the xrefs whose Subtype read or decoding raised
  summary,           \* the counts printed by the final print, or None
  call, ret          \* a helper called on its own: its arguments, its result

inputs == <<pdf_exists, doc>>
locals == <<appeared, rects, series_hint, words, pix>>
caches == <<page_words_cache, page_text_cache>>
counters == <<saved_swatches, saved_raw>>
disk == <<dirs, fs>>
helper == <<call, ret>>
vars == <<inputs, obj, pc, xref, pidx, ridx, locals, caches, counters, disk,
          log, decodes, failed, summary, helper>>

NoCall == [fn |-> "none"]
NoRet == [done |-> FALSE, val |-> None]

\* main before it runs.
Fresh ==
  /\ obj = NoObj
  /\ xref = 0 /\ pidx = 0 /\ ridx = 0
  /\ appeared = FALSE /\ rects = <<>> /\ series_hint = None /\ words = <<>>
  /\ pix = NoPix
  /\ page_words_cache = <<>> /\ page_text_cache = <<>>
  /\ saved_swatches = 0 /\ saved_raw = 0
  /\ dirs = {} /\ fs = <<>> /\ log = <<>>
  /\ decodes = [x \in 1..MaxXref |-> 0]
  /\ failed = {}
  /\ summary = None

Init ==
  /\ \/ pdf_exists = TRUE /\ doc \in [1..MaxPages -> PageSet]
     \/ pdf_exists = FALSE /\ doc = <<>>
  /\ pc = "start"
  /\ Fresh
  /\ call = NoCall /\ ret = NoRet

\* doc.xref_length(): the entries are 1..MaxXref.
xref_length == MaxXref + 1

\* ----------------------------------------------------------- main, by step
\* Lines 92-94: the input is missing.
Exit ==
  /\ pc = "start" /\ ~pdf_exists
  /\ pc' = "exit"
  /\ UNCHANGED <<inputs, obj, xref, pidx, ridx, locals, caches, counters, disk,
                 log, decodes, failed, summary, helper>>

\* Lines 96-112: open, create the two roots, zero the counters, fill the caches.
Open ==
  /\ pc = "start" /\ pdf_exists
  /\ dirs' = dirs \cup {OUT_ROOT, RAW_ROOT}
  /\ saved_swatches' = 0 /\ saved_raw' = 0
  /\ page_words_cache' = [p \in 1..Len(doc) |-> doc[p].words]
  /\ page_text_cache' = [p \in 1..Len(doc) |-> doc[p].text]
  /\ xref' = 1
  /\ pc' = "xref_loop"
  /\ UNCHANGED <<inputs, obj, pidx, ridx, locals, fs, log, decodes, failed, summary,
                 helper>>

\* Lines 124-127: xref_get_key raises, the object is skipped.
SkipUnreadable ==
  /\ pc = "xref_loop" /\ xref < xref_length
  /\ failed' = failed \cup {xref}
  /\ xref' = xref + 1
  /\ UNCHANGED <<inputs, obj, pc, pidx, ridx, locals, caches, counters, disk,
                 log, decodes, summary, helper>>

\* Lines 125, 128-129: "/Image" is not in the Subtype.
SkipNonImage ==
  /\ pc = "xref_loop" /\ xref < xref_length
  /\ \E subtype \in OtherSubtypes \cup {IMAGE} :
       /\ ~Contains(subtype, IMAGE)
       /\ xref' = xref + 1
  /\ UNCHANGED <<inputs, obj, pc, pidx, ridx, locals, caches, counters, disk,
                 log, decodes, failed, summary, helper>>

\* Lines 125, 128, 132-133: an image; start the loop over the pages.
EnterImage ==
  /\ pc = "xref_loop" /\ xref < xref_length
  /\ \E subtype \in OtherSubtypes \cup {IMAGE}, o \in ImageSet(Len(doc)) :
       /\ Contains(subtype, IMAGE)
       /\ obj' = o
  /\ appeared' = FALSE
  /\ pidx' = 0
  /\ pc' = "page_loop"
  /\ UNCHANGED <<inputs, xref, ridx, rects, series_hint, words, pix, caches, counters,
                 disk, log, decodes, failed, summary, helper>>

\* Lines 134-136: the image is not on this page.
PageNoRects ==
  /\ pc = "page_loop" /\ pidx < Len(doc)
  /\ obj.rects[pidx + 1] = <<>>
  /\ rects' = <<>>
  /\ pidx' = pidx + 1
  /\ UNCHANGED <<inputs, obj, pc, xref, ridx, appeared, series_hint, words, pix,
                 caches, counters, disk, log, decodes, failed, summary, helper>>

\* A decode failure that is not contained: the page's rectangles are processed
\* with whatever pixmap is at hand.
PageDecodeFail_fallthrough ==
  /\ pc = "page_loop" /\ pidx < Len(doc)
  /\ obj.rects[pidx + 1] # <<>>
  /\ obj.pixmap = NoPix
  /\ rects' = obj.rects[pidx + 1]
  /\ appeared' = TRUE
  /\ series_hint' = detect_series(page_text_cache[pidx + 1])
  /\ words' = page_words_cache[pidx + 1]
  /\ decodes' = [decodes EXCEPT ![xref] = @ + 1]
  /\ failed' = failed \cup {xref}
  /\ pix' = [width |-> 300, height |-> 300, n |-> 3, to_rgb |-> FALSE]
  /\ ridx' = 1
  /\ pc' = "rect_loop"
  /\ UNCHANGED <<inputs, obj, xref, pidx, caches, counters, disk, log,
                 summary, helper>>

\* Lines 137-146: the image is on this page and fitz.Pixmap raises.
PageDecodeFail ==
  /\ pc = "page_loop" /\ pidx < Len(doc)
  /\ obj.rects[pidx + 1] # <<>>
  /\ obj.pixmap = NoPix
  /\ rects' = obj.rects[pidx + 1]
  /\ appeared' = TRUE
  /\ series_hint' = detect_series(page_text_cache[pidx + 1])
  /\ words' = page_words_cache[pidx + 1]
  /\ decodes' = [decodes EXCEPT ![xref] = @ + 1]
  /\ failed' = failed \cup {xref}
  /\ pidx' = pidx + 1
  /\ UNCHANGED <<inputs, obj, pc, xref, ridx, pix, caches, counters, disk, log,
                 summary, helper>>

\* Lines 137-148: the image is on this page and is decoded; start on its rectangles.
PageDecoded ==
  /\ pc = "page_loop" /\ pidx < Len(doc)
  /\ obj.rects[pidx + 1] # <<>>
  /\ obj.pixmap # NoPix
  /\ rects' = obj.rects[pidx + 1]
  /\ appeared' = TRUE
  /\ series_hint' = detect_series(page_text_cache[pidx + 1])
  /\ words' = page_words_cache[pidx + 1]
  /\ decodes' = [decodes EXCEPT ![xref] = @ + 1]
  /\ pix' = obj.pixmap
  /\ ridx' = 1
  /\ pc' = "rect_loop"
  /\ UNCHANGED <<inputs, obj, xref, pidx, caches, counters, disk, log, failed,
                 summary, helper>>

\* Line 133 exhausted, lines 172-173: on to the next object.
PagesDone ==
  /\ pc = "page_loop" /\ pidx >= Len(doc)
  /\ obj' = NoObj
  /\ xref' = xref + 1
  /\ pc' = "xref_loop"
  /\ UNCHANGED <<inputs, pidx, ridx, locals, caches, counters, disk, log, decodes,
                 failed, summary, helper>>

\* Lines 150-151: the geometry filter rejects.
RectFiltered ==
  /\ pc = "rect_loop" /\ ridx <= Len(rects)
  /\ ~is_square_swatch(pix)
  /\ ridx' = ridx + 1
  /\ UNCHANGED <<inputs, obj, pc, xref, pidx, locals, caches, counters, disk, log,
                 decodes, failed, summary, helper>>

\* The decision with "or" in place of "and".
confident_either(series, color_guess) == Truthy(series) \/ Truthy(color_guess)

\* Lines 157, 166: is this placement labeled confidently.
confident(series, color_guess) == Truthy(series) /\ Truthy(color_guess)

\* The color lookup that ignores the series and always uses the global vocabulary.
color_guess_global(series, wds, rect) == nearest_color_label(wds, rect, None)

\* Lines 154-155
color_guess_for(series, wds, rect) ==
  nearest_color_label(wds, rect, IF Truthy(series) THEN SERIES_COLORS_get(series) ELSE None)

\* Lines 158, 161
out_dir_for(series, color_guess) ==
  IF confident(series, color_guess) THEN path_join(OUT_ROOT, series) ELSE RAW_ROOT

\* Lines 159, 162
out_path_for(series, color_guess, pi, xr, px) ==
  IF confident(series, color_guess)
  THEN path_join(out_dir_for(series, color_guess), color_guess \o DOT_PNG)
  ELSE path_join(out_dir_for(series, color_guess), raw_name(pi, xr, px))

\* Lines 115-121, save_pixmap: what is written for a pixmap of n channels; when
\* the conversion to RGB raises, the alpha channel is dropped instead.
saved_form(px) ==
  IF px.n >= 4 THEN (IF px.to_rgb THEN "rgb" ELSE "no_alpha") ELSE "as_is"

\* The counters the wrong way round.
counted_swapped(is_confident, swatches, raw) ==
  IF is_confident THEN <<swatches, raw + 1>> ELSE <<swatches + 1, raw>>

\* Lines 166-169: the two counters after a save.
counted(is_confident, swatches, raw) ==
  IF is_confident THEN <<swatches + 1, raw>> ELSE <<swatches, raw + 1>>

\* Lines 153-169: one rectangle that passes the filter is labeled, saved, counted.
RectSaved ==
  /\ pc = "rect_loop" /\ ridx <= Len(rects)
  /\ is_square_swatch(pix)
  /\ \E color_guess \in {color_guess_for(series_hint, words, rects[ridx])} :
       LET out_dir  == out_dir_for(series_hint, color_guess)
           out_path == out_path_for(series_hint, color_guess, pidx, xref, pix)
           saved    == [xref |-> xref, form |-> saved_form(pix)]
           after    == counted(confident(series_hint, color_guess),
                               saved_swatches, saved_raw)
       IN  /\ dirs' = dirs \cup {out_dir}
           /\ fs' = [q \in DOMAIN fs \cup {out_path} |->
                       IF q = out_path THEN saved ELSE fs[q]]
           /\ log' = Append(log, [xref |-> xref, pidx |-> pidx, ridx |-> ridx,
                                  rect |-> rects[ridx], path |-> out_path])
           /\ saved_swatches' = after[1]
           /\ saved_raw' = after[2]
  /\ ridx' = ridx + 1
  /\ UNCHANGED <<inputs, obj, pc, xref, pidx, locals, caches, decodes, failed,
                 summary, helper>>

\* Line 148 exhausted: on to the next page.
RectsDone ==
  /\ pc = "rect_loop" /\ ridx > Len(rects)
  /\ pidx' = pidx + 1
  /\ pc' = "page_loop"
  /\ UNCHANGED <<inputs, obj, xref, ridx, locals, caches, counters, disk, log,
                 decodes, failed, summary, helper>>

\* Line 123 exhausted, lines 175-176: the summary.
Finish ==
  /\ pc = "xref_loop" /\ xref >= xref_length
  /\ summary' = <<saved_swatches, saved_raw>>
  /\ pc' = "done"
  /\ UNCHANGED <<inputs, obj, xref, pidx, ridx, locals, caches, counters, disk,
                 log, decodes, failed, helper>>

Next ==
  \/ Exit \/ Open
  \/ SkipUnreadable \/ SkipNonImage \/ EnterImage \/ Finish
  \/ PageNoRects \/ PageDecodeFail \/ PageDecoded \/ PagesDone
  \/ RectFiltered \/ RectSaved \/ RectsDone

Spec == Init /\ [][Next]_vars

\* main is sequential code that always takes its next step.
FairSpec == Spec /\ WF_vars(Next)

\* ------------------------------------------------- the helpers on their own
\* main at rest, while a helper is called on its own.
Idle ==
  /\ pdf_exists = FALSE /\ doc = <<>> /\ pc = "idle"
  /\ Fresh

\* ---- detect_series(text)
upper_char(c) ==
  IF \E i \in DOMAIN LowerCase : LowerCase[i] = c
  THEN UpperCase[CHOOSE i \in DOMAIN LowerCase : LowerCase[i] = c]
  ELSE c
upper(s) == [i \in DOMAIN s |-> upper_char(s[i])]

\* Every space becomes a line break, a tab and a space; blanks around the whole.
RECURSIVE ragged(_)
ragged(s) ==
  IF s = <<>> THEN <<"\n">>
  ELSE (IF Head(s) = " " THEN <<"\n", "\t", " ">> ELSE <<Head(s)>>) \o ragged(Tail(s))

RECURSIVE join_tokens(_)
join_tokens(toks) ==
  IF toks = <<>> THEN <<>>
  ELSE IF Len(toks) = 1 THEN toks[1]
  ELSE toks[1] \o <<" ">> \o join_tokens(Tail(toks))

Fillers == { (* Shingles *) <<"S","h","i","n","g","l","e","s">>, (* GAF *) <<"G","A","F">> }
Tokens == Range(SERIES_NAMES) \cup Fillers
TokenSeqs == UNION {[1..k -> Tokens] : k \in 0..MaxTokens}
Styles == {"plain", "upper", "ragged"}

styled(s, style) ==
  CASE style = "plain" -> s
    [] style = "upper" -> upper(s)
    [] style = "ragged" -> <<" ">> \o ragged(s)

\* The page texts detect_series is tried on.
DetectTexts == {styled(join_tokens(toks), st) : toks \in TokenSeqs, st \in Styles}

InitDetect ==
  /\ Idle
  /\ call \in {[fn |-> "detect_series", text |-> t] : t \in DetectTexts}
  /\ ret = NoRet

CallDetect ==
  /\ call.fn = "detect_series" /\ ~ret.done
  /\ ret' = [done |-> TRUE, val |-> detect_series(call.text)]
  /\ UNCHANGED <<inputs, obj, pc, xref, pidx, ridx, locals, caches, counters, disk,
                 log, decodes, failed, summary, call>>

NextDetect == CallDetect
SpecDetect == InitDetect /\ [][NextDetect]_vars

\* ---- is_square_swatch(pix)
InitSquare ==
  /\ Idle
  /\ call \in {[fn |-> "is_square_swatch",
                pix |-> [width |-> w, height |-> h, n |-> 3, to_rgb |-> TRUE]] :
                 w \in 1..MaxDim, h \in 1..MaxDim}
  /\ ret = NoRet

CallSquare ==
  /\ call.fn = "is_square_swatch" /\ ~ret.done
  /\ ret' = [done |-> TRUE, val |-> is_square_swatch(call.pix)]
  /\ UNCHANGED <<inputs, obj, pc, xref, pidx, ridx, locals, caches, counters, disk,
                 log, decodes, failed, summary, call>>

NextSquare == CallSquare
SpecSquare == InitSquare /\ [][NextSquare]_vars

\* ---- nearest_color_label(words, rect, allowed_colors)
\* Words around R1, whose center is (100,100):
\*   "Charcoal" centered at (150,140); " CHARCOAL\n" at (50,60), as far as the first;
\*   "Sagewood" at (120,110); "GAF" at (110,100), the closest and no color;
\*   "Hunter  Green" at (100,359.5), 259.5 below; "Barkwood" at (360,100), 260 right;
\*   "Slate" at (500,500), out of reach of R1 and in reach of R2.
NearWords ==
  { Word(130, 135, 170, 145, <<"C","h","a","r","c","o","a","l">>),
    Word(30, 55, 70, 65, <<" ","C","H","A","R","C","O","A","L","\n">>),
    Word(100, 105, 140, 115, <<"S","a","g","e","w","o","o","d">>),
    Word(100, 95, 120, 105, <<"G","A","F">>),
    Word(80, 354, 120, 365, <<"H","u","n","t","e","r"," "," ","G","r","e","e","n">>),
    Word(340, 95, 380, 105, <<"B","a","r","k","w","o","o","d">>),
    Word(480, 495, 520, 505, <<"S","l","a","t","e">>) }

WordLists == UNION {[1..k -> NearWords] : k \in 0..MaxWords}

\* allowed_colors: none given, or the list of a series.
AllowedLists == {None, SERIES_COLORS_get(SERIES_NAMES[1]), SERIES_COLORS_get(SERIES_NAMES[10])}

InitNearest ==
  /\ Idle
  /\ call \in {[fn |-> "nearest_color_label", words |-> ws, rect |-> r,
                allowed_colors |-> a] :
                 ws \in WordLists, r \in {R1, R2}, a \in AllowedLists}
  /\ ret = NoRet

CallNearest ==
  /\ call.fn = "nearest_color_label" /\ ~ret.done
  /\ ret' = [done |-> TRUE,
             val |-> nearest_color_label(call.words, call.rect, call.allowed_colors)]
  /\ UNCHANGED <<inputs, obj, pc, xref, pidx, ridx, locals, caches, counters, disk,
                 log, decodes, failed, summary, call>>

NextNearest == CallNearest
SpecNearest == InitNearest /\ [][NextNearest]_vars

\* ----------------------------------------------------------------- claims
\* ---- C2
\* The place of a series in the taxonomy.
series_index(series) == CHOOSE i \in DOMAIN SERIES_NAMES : SERIES_NAMES[i] = series

\* The pairs (S1, S2): normalized S1 is inside normalized S2, and S2 is longer.
NestedPairs ==
  {pr \in Range(SERIES_NAMES) \X Range(SERIES_NAMES) :
     Contains(norm(pr[2]), norm(pr[1])) /\ Len(pr[2]) > Len(pr[1])}

\* The series named in text t that come before S2 in longest-first order.
Rivals(t, S2) ==
  {S3 \in Range(SERIES_NAMES) :
     /\ Contains(t, norm(S3))
     /\ \/ Len(S3) > Len(S2)
        \/ Len(S3) = Len(S2) /\ series_index(S3) < series_index(S2)}

\* C2 as stated: for every nested pair (S1, S2) and every page text containing
\* S2's full name, other series names in the text or not, detect_series returns S2.
C2_ReturnsLongerName ==
  ret.done =>
    \A pr \in NestedPairs :
      Contains(norm(call.text), norm(pr[2])) => ret.val = pr[2]

\* C2 amended: for every nested pair (S1, S2) and every page text containing S2's
\* full name, detect_series never returns S1; it returns S2 unless the text also
\* names a series that is longer than S2, or as long and earlier in the taxonomy,
\* and then it returns the first of those in longest-first order.
C2_NeverShorterName ==
  ret.done =>
    \A pr \in NestedPairs :
      LET t == norm(call.text)
          rivals == Rivals(t, pr[2])
      IN  Contains(t, norm(pr[2])) =>
            /\ ret.val # pr[1]
            /\ rivals = {} => ret.val = pr[2]
            /\ rivals # {} =>
                 /\ ret.val \in rivals
                 /\ \A r \in rivals :
                      \/ Len(ret.val) > Len(r)
                      \/ Len(ret.val) = Len(r)
                           /\ series_index(ret.val) <= series_index(r)

\* A text naming "Grand Sequoia RS" (and so "Grand Sequoia") and nothing longer
\* or earlier is attributed to "Grand Sequoia RS".
C2_Witness ==
  /\ ret.done
  /\ call.fn = "detect_series"
  /\ Contains(norm(call.text), norm(SERIES_NAMES[11]))
  /\ Contains(norm(call.text), norm(SERIES_NAMES[4]))
  /\ <<SERIES_NAMES[4], SERIES_NAMES[11]>> \in NestedPairs
  /\ Rivals(norm(call.text), SERIES_NAMES[11]) = {}
  /\ ret.val = SERIES_NAMES[11]

\* ---- C3
\* The vocabulary nearest_color_label matches against.
Vocabulary(allowed_colors) ==
  IF Truthy(allowed_colors)
  THEN {norm(c) : c \in Range(allowed_colors)}
  ELSE UNION {{norm(c) : c \in Range(SERIES_COLORS_ITEMS[i].colors)} :
                i \in DOMAIN SERIES_COLORS_ITEMS}

\* Twice the horizontal and the vertical center-to-center offset of word w from r.
OffsetX2(w, r) == (w.x0 + w.x1) - (r.x0 + r.x1)
OffsetY2(w, r) == (w.y0 + w.y1) - (r.y0 + r.y1)

Qualifies(w, r, allowed_colors) ==
  /\ norm(w.txt) \in Vocabulary(allowed_colors)
  /\ -520 < OffsetX2(w, r) /\ OffsetX2(w, r) < 520
  /\ -520 < OffsetY2(w, r) /\ OffsetY2(w, r) < 520

\* Four times the squared center distance.
SquaredDistance4(w, r) ==
  OffsetX2(w, r) * OffsetX2(w, r) + OffsetY2(w, r) * OffsetY2(w, r)

\* C3: nearest_color_label returns None iff no word qualifies (its normalized text
\* is in the vocabulary and both center offsets are strictly below 260); otherwise
\* the stripped, original-case text of the qualifying word at the smallest squared
\* center distance, the first in the list among equals.
C3_NearestQualifyingWord ==
  ret.done =>
    LET ws == call.words
        r  == call.rect
        Q  == {i \in DOMAIN ws : Qualifies(ws[i], r, call.allowed_colors)}
    IN  /\ (ret.val = None) <=> (Q = {})
        /\ Q # {} =>
             \E i \in Q :
               /\ \A j \in Q : SquaredDistance4(ws[i], r) <= SquaredDistance4(ws[j], r)
               /\ \A j \in Q : j < i => SquaredDistance4(ws[i], r) < SquaredDistance4(ws[j], r)
               /\ ret.val = strip(ws[i].txt)

\* Two qualifying words at the same smallest distance, "Charcoal" then " CHARCOAL\n",
\* with a closer word that is no color and a color word 260 away: the first wins.
C3_Witness ==
  /\ ret.done
  /\ call.fn = "nearest_color_label"
  /\ call.rect = R1
  /\ call.allowed_colors = SERIES_COLORS_get(SERIES_NAMES[1])
  /\ Len(call.words) = 3
  /\ call.words[1].txt = <<"C","h","a","r","c","o","a","l">>
  /\ call.words[2].txt = <<" ","C","H","A","R","C","O","A","L","\n">>
  /\ call.words[3].txt = <<"B","a","r","k","w","o","o","d">>
  /\ SquaredDistance4(call.words[1], R1) = SquaredDistance4(call.words[2], R1)
  /\ ~Qualifies(call.words[3], R1, call.allowed_colors)
  /\ ret.val = <<"C","h","a","r","c","o","a","l">>

\* ---- C4
\* C4: is_square_swatch is true iff both sides are at least 180 and the ratio
\* width/height lies in [0.85, 1.18], both ends included: 17/20 <= w/h <= 59/50.
C4_SquareIffInBand ==
  ret.done =>
    LET w == call.pix.width
        h == call.pix.height
    IN  /\ ret.val <=> (w >= 180 /\ h >= 180 /\ 20 * w >= 17 * h /\ 50 * w <= 59 * h)
        /\ (w = 340 /\ h = 400) => ret.val
        /\ (w = 236 /\ h = 200) => ret.val
        /\ (w = 179 \/ h = 179) => ~ret.val
        /\ (w = 2 * h) => ~ret.val

\* The two ends of the band are reached: 340x400 is 0.85 and is accepted.
C4_Witness ==
  /\ ret.done
  /\ call.fn = "is_square_swatch"
  /\ call.pix.width = 340 /\ call.pix.height = 400
  /\ ret.val = TRUE

\* ---- the files main writes
\* The place of the last "/" of a path, 0 when there is none.
LastSlash(path) ==
  LET slashes == {i \in DOMAIN path : path[i] = "/"}
  IN  IF slashes = {} THEN 0 ELSE CHOOSE i \in slashes : \A j \in slashes : j <= i
DirName(path) == Value({SubSeq(q, 1, LastSlash(q) - 1) : q \in {path}})
BaseName(path) == Value({SubSeq(q, LastSlash(q) + 1, Len(q)) : q \in {path}})
\* The file name without its ".png".
Stem(path) == Value({SubSeq(b, 1, Len(b) - Len(DOT_PNG)) : b \in {BaseName(path)}})

\* The normalized color names of each series.
NormalizedColors ==
  [k \in DOMAIN SERIES_COLORS_ITEMS |->
     {norm(c) : c \in Range(SERIES_COLORS_ITEMS[k].colors)}]

SWATCHES == <<"s","w","a","t","c","h","e","s">>
SWATCHES_RAW == <<"s","w","a","t","c","h","e","s","_","r","a","w">>

\* A write under swatches/<series>/, for some <series>.
UnderSwatches(path) == DirName(DirName(path)) = SWATCHES
\* A write under swatches_raw/.
UnderRaw(path) == DirName(path) = SWATCHES_RAW

\* The page a write's placement is on, the series detected in its text, and the
\* color located next to its rectangle with the vocabulary that series gives.
\* (detect_series and nearest_color_label are tabulated over the page texts, the
\* page words and the rectangles a document is made of, and looked up.)
SeriesTable == [t \in PageTexts |-> detect_series(t)]
ColorTable ==
  [r \in UNION {Range(rl) : rl \in RectLists}, sr \in Range(SeriesTable) |->
     nearest_color_label(PageWords, r,
                         IF sr # None THEN SERIES_COLORS_get(sr) ELSE None)]
PageOf(e) == doc[e.pidx + 1]
SeriesOf(e) == SeriesTable[PageOf(e).text]
ColorOf(e) ==
  IF PageOf(e).words = PageWords
  THEN ColorTable[e.rect, SeriesOf(e)]
  ELSE nearest_color_label(PageOf(e).words, e.rect,
                           IF SeriesOf(e) # None THEN SERIES_COLORS_get(SeriesOf(e))
                           ELSE None)

ConfidentWrites == {i \in DOMAIN log : UnderSwatches(log[i].path)}
RawWrites == {i \in DOMAIN log : UnderRaw(log[i].path)}

\* ---- C1
\* C1: a placement that passes the filter is written under swatches/<series>/ iff a
\* series was detected for its page and a color was located; otherwise, a page
\* without a series included, under swatches_raw/.
C1_ConfidentIffSeriesAndColor ==
  \A i \in DOMAIN log :
    LET e == log[i]
    IN  /\ IF SeriesOf(e) # None /\ ColorOf(e) # None
           THEN DirName(e.path) = SWATCHES \o <<"/">> \o SeriesOf(e)
           ELSE DirName(e.path) = SWATCHES_RAW
        /\ SeriesOf(e) = None => UnderRaw(e.path)

\* A run has written a placement with a series and a color, one with a series and
\* no color, and one with a color of the global vocabulary on a page with no series.
C1_Witness ==
  /\ \E i \in DOMAIN log :
       SeriesOf(log[i]) # None /\ ColorOf(log[i]) # None /\ UnderSwatches(log[i].path)
  /\ \E i \in DOMAIN log :
       SeriesOf(log[i]) # None /\ ColorOf(log[i]) = None /\ UnderRaw(log[i].path)
  /\ \E i \in DOMAIN log :
       SeriesOf(log[i]) = None /\ ColorOf(log[i]) # None /\ UnderRaw(log[i].path)

\* ---- C5
\* One iteration of the loop over the rectangles of a decoded image.
AtPlacement == pc = "rect_loop" /\ ridx <= Len(rects)

\* C5: the two counters always equal the writes made so far under swatches/<series>/
\* and under swatches_raw/, and so does the summary; a placement that passes the
\* filter makes one write and one increment of the matching counter, one that fails
\* makes neither, and nothing else writes or counts.
C5_CountsMatchWrites ==
  /\ [](/\ saved_swatches = Cardinality(ConfidentWrites)
        /\ saved_raw = Cardinality(RawWrites)
        /\ saved_swatches + saved_raw = Len(log)
        /\ pc = "done" => summary = <<Cardinality(ConfidentWrites), Cardinality(RawWrites)>>)
  /\ [][ IF AtPlacement /\ 20 * pix.width >= 17 * pix.height
            /\ 50 * pix.width <= 59 * pix.height
            /\ pix.width >= 180 /\ pix.height >= 180
         THEN /\ Len(log') = Len(log) + 1
              /\ SubSeq(log', 1, Len(log)) = log
              /\ IF UnderSwatches(log'[Len(log')].path)
                 THEN saved_swatches' = saved_swatches + 1 /\ saved_raw' = saved_raw
                 ELSE saved_raw' = saved_raw + 1 /\ saved_swatches' = saved_swatches
         ELSE log' = log /\ fs' = fs /\ saved_swatches' = saved_swatches
              /\ saved_raw' = saved_raw ]_vars

\* The summary of a run that wrote to both trees and rejected a placement.
C5_Witness ==
  /\ pc = "done"
  /\ summary = <<saved_swatches, saved_raw>>
  /\ saved_swatches >= 1 /\ saved_raw >= 1
  /\ pix.width = 400

\* ---- C6
\* C6: every file written as swatches/<S>/<C>.png has S a key of the taxonomy, the
\* series detected in the text of the placement's page, and C normalizing to the
\* normalized form of a color of that series S.
C6_ColorOfDetectedSeries ==
  \A i \in ConfidentWrites :
    LET S == BaseName(DirName(log[i].path))
        C == Stem(log[i].path)
    IN  /\ S \in Range(SERIES_NAMES)
        /\ S = SeriesOf(log[i])
        /\ norm(C) \in NormalizedColors[series_index(S)]

\* A confident write on a "Timberline HDZ RS" page where the closest color word,
\* "Barkwood", belongs to other series only: the file is named after the next
\* one, "CHARCOAL".
C6_Witness ==
  \E i \in ConfidentWrites :
    /\ SeriesOf(log[i]) = SERIES_NAMES[10]
    /\ nearest_color_label(PageOf(log[i]).words, log[i].rect, None) = <<"B","a","r","k","w","o","o","d">>
    /\ <<"B","a","r","k","w","o","o","d">> \notin Range(SERIES_COLORS_get(SERIES_NAMES[10]))
    /\ Stem(log[i].path) = <<"C","H","A","R","C","O","A","L">>

\* ---- C7
\* C7 as stated: in every file written as swatches/<series-name>/<color-name>.png,
\* <series-name> is a key of the taxonomy and <color-name> is, character for
\* character, a color name stored in the taxonomy.
C7_LiteralTaxonomyStrings ==
  \A i \in ConfidentWrites :
    /\ BaseName(DirName(log[i].path)) \in Range(SERIES_NAMES)
    /\ \E k \in DOMAIN SERIES_COLORS_ITEMS :
         Stem(log[i].path) \in Range(SERIES_COLORS_ITEMS[k].colors)

\* ---- C8
\* C8 as stated: no two writes that take the fallback path go to the same
\* swatches_raw/ path, and at the end swatches_raw/ holds as many files as
\* the fallback count.
C8_FallbackNamesUnique ==
  /\ \A i, j \in RawWrites : i # j => log[i].path # log[j].path
  /\ pc = "done" => Cardinality({q \in DOMAIN fs : UnderRaw(q)}) = saved_raw

\* ---- C10
\* C10 as stated: the pixel data of an image object is decoded at most once,
\* however many pages and rectangles it is placed on.
C10_DecodedOncePerObject ==
  \A x \in DOMAIN decodes : decodes[x] <= 1

\* ---- C9
\* The path a placement is written to, from the document alone: page p (from 0),
\* rectangle r, the pixel data px of object x.
ExpectedPath(x, p, r, px) ==
  LET series == detect_series(doc[p + 1].text)
      color  == nearest_color_label(doc[p + 1].words, r,
                  IF series # None THEN SERIES_COLORS_get(series) ELSE None)
  IN  IF series # None /\ color # None
      THEN SWATCHES \o <<"/">> \o series \o <<"/">> \o color \o DOT_PNG
      ELSE SWATCHES_RAW \o <<"/">> \o raw_name(p, x, px)

\* The writes image object o at xref x is due, in order, on pages p.. of the
\* document: none when its pixel data cannot be decoded or is not square.
RECURSIVE ExpectedPaths(_, _, _)
ExpectedPaths(x, o, p) ==
  IF p >= Len(doc) THEN <<>>
  ELSE (IF o.pixmap = NoPix \/ ~is_square_swatch(o.pixmap) THEN <<>>
        ELSE [k \in DOMAIN o.rects[p + 1] |->
                ExpectedPath(x, p, o.rects[p + 1][k], o.pixmap)])
       \o ExpectedPaths(x, o, p + 1)

\* The paths written for xref x so far, in order.
RECURSIVE PathsOf(_, _)
PathsOf(x, i) ==
  IF i > Len(log) THEN <<>>
  ELSE (IF log[i].xref = x THEN <<log[i].path>> ELSE <<>>) \o PathsOf(x, i + 1)

\* How far main has come: grows with every step, and ends at the summary.
LongestRects == CHOOSE n \in {Len(r) : r \in RectLists} : \A r \in RectLists : Len(r) <= n
PerPage == LongestRects + 2
PerXref == MaxPages * PerPage + 2
Progress ==
  CASE pc = "start" -> 0
    [] pc = "exit" -> 1
    [] pc = "xref_loop" -> xref * PerXref
    [] pc = "page_loop" -> xref * PerXref + 1 + pidx * PerPage
    [] pc = "rect_loop" -> xref * PerXref + 1 + pidx * PerPage + ridx
    [] pc = "done" -> (xref_length + 1) * PerXref

\* C9: an object whose Subtype read or whose decoding raised has no file and
\* changes no counter; every image object, whatever failed before it, gets exactly
\* the writes the document gives it (as it would with the failing objects absent);
\* main never stops short of the summary, which follows the last xref.
C9_FailureContained ==
  /\ [](/\ \A i \in DOMAIN log : log[i].xref \notin failed
        /\ (pc = "page_loop" /\ pidx >= Len(doc)) =>
             PathsOf(xref, 1) = ExpectedPaths(xref, obj, 0)
        /\ (pdf_exists /\ pc # "done") => ENABLED Next
        /\ pc = "done" => xref = xref_length /\ summary = <<saved_swatches, saved_raw>>)
  /\ [][ /\ (failed' # failed \/ xref \in failed) =>
               /\ log' = log /\ fs' = fs
               /\ saved_swatches' = saved_swatches /\ saved_raw' = saved_raw
         /\ log' # log =>
               /\ SubSeq(log', 1, Len(log)) = log /\ Len(log') = Len(log) + 1
               /\ log'[Len(log')].xref = xref /\ xref' = xref
         /\ Progress' > Progress ]_vars

\* The summary of a run in which the first object could not be decoded, or its
\* Subtype not be read, and the second was written to both trees.
C9_Witness ==
  /\ pc = "done"
  /\ 1 \in failed
  /\ \E i \in ConfidentWrites : log[i].xref = 2
  /\ \E i \in RawWrites : log[i].xref = 2

====
